---- MODULE Spec2Model ----
(***************************************************************************)
(* Model of the AMPED PDF generator (src/app.py): the /generate-pdf        *)
(* handler, the theme lookup and the story that build_pdf_from_data        *)
(* assembles and hands to the document template.                           *)
(*                                                                         *)
(* JSON values are records [t, n, s]: t is the Python type of the value    *)
(* ("absent" stands for a key that is not in the dict), n the number (an   *)
(* int as itself, a float in hundredths, a bool as 0/1) and s the text of  *)
(* a str as a sequence of one-character strings.                           *)
(***************************************************************************)
EXTENDS Integers, Sequences, FiniteSets, TLC

VARIABLES data, pc, project_name, trade_type, trade_config, story, exc,
          pages, response

vars == <<data, pc, project_name, trade_type, trade_config, story, exc,
          pages, response>>

(***************************************************************************)
(* Bounds of the model.                                                    *)
(***************************************************************************)
MaxItems == 3        \* longest item list of a section
MaxCasePrefix == 4   \* leading characters of a trade id whose case varies
MaxOver == 2         \* from/to texts run up to TruncateWidth + MaxOver
PageLines == 10      \* lines (table rows, paragraphs, spacers) per page

(***************************************************************************)
(* Python values.                                                          *)
(***************************************************************************)
Absent == [t |-> "absent", n |-> 0, s |-> <<>>]
Null == [t |-> "null", n |-> 0, s |-> <<>>]
IntV(k) == [t |-> "int", n |-> k, s |-> <<>>]
FloatV(h) == [t |-> "float", n |-> h, s |-> <<>>]
BoolV(b) == [t |-> "bool", n |-> IF b THEN 1 ELSE 0, s |-> <<>>]
StrV(cs) == [t |-> "str", n |-> 0, s |-> cs]

AbsentColl == [t |-> "absent", items |-> <<>>]
NullColl == [t |-> "null", items |-> <<>>]
List(its) == [t |-> "list", items |-> its]

\* dict.get(key, default), applied to the slot of the key
Get(v, default) == IF v.t = "absent" THEN default ELSE v

\* truth value of a Python object in an if
Truthy(v) ==
    CASE v.t = "str" -> Len(v.s) > 0
      [] v.t \in {"int", "float", "bool"} -> v.n # 0
      [] OTHER -> FALSE

\* a variant that takes every list, the empty one too, as true
TruthyCollAnyList(c) == c.t = "list"

\* truth value of a list (or of the None a null key yields)
TruthyColl(c) == c.t = "list" /\ Len(c.items) > 0

IsNumber(v) == v.t \in {"int", "float", "bool"}
Hundredths(v) == IF v.t = "float" THEN v.n ELSE v.n * 100

\* a variant that assigns where the code accumulates ("=" for "+=")
AddAssigns(a, b) == b

\* a + b on numbers: int (and bool) stay int, anything with a float is float
Add(a, b) ==
    IF a.t = "float" \/ b.t = "float"
    THEN FloatV(Hundredths(a) + Hundredths(b))
    ELSE IntV(a.n + b.n)

Digits == <<"0", "1", "2", "3", "4", "5", "6", "7", "8", "9">>
Digit(d) == Digits[d + 1]

RECURSIVE DecStr(_)
DecStr(k) == IF k < 10 THEN <<Digit(k)>> ELSE Append(DecStr(k \div 10), Digit(k % 10))

\* repr of a float given in hundredths: 12.0, 12.5, 12.25
FloatRepr(h) ==
    DecStr(h \div 100) \o <<".">> \o
    (IF h % 10 = 0 THEN <<Digit((h % 100) \div 10)>>
     ELSE <<Digit((h % 100) \div 10), Digit(h % 10)>>)

sNone == <<"N", "o", "n", "e">>
sTrue == <<"T", "r", "u", "e">>
sFalse == <<"F", "a", "l", "s", "e">>

\* str(v)
PyStr(v) ==
    CASE v.t = "str" -> v.s
      [] v.t = "int" -> DecStr(v.n)
      [] v.t = "float" -> FloatRepr(v.n)
      [] v.t = "bool" -> IF v.n = 1 THEN sTrue ELSE sFalse
      [] OTHER -> sNone

\* format(v, ".1f") of a number: one decimal, ties to the even digit (the
\* values of the model are multiples of 0.25, which a float holds exactly)
Fmt1f(v) ==
    LET h == Hundredths(v)
        t == h \div 10
        r == h % 10
        tenths == IF r > 5 \/ (r = 5 /\ t % 2 = 1) THEN t + 1 ELSE t
    IN  DecStr(tenths \div 10) \o <<".">> \o <<Digit(tenths % 10)>>

\* str.lower() on ASCII text
UpperChars == <<"A", "B", "C", "D", "E", "F", "G", "H", "I", "J", "K", "L", "M",
                "N", "O", "P", "Q", "R", "S", "T", "U", "V", "W", "X", "Y", "Z">>
LowerChars == <<"a", "b", "c", "d", "e", "f", "g", "h", "i", "j", "k", "l", "m",
                "n", "o", "p", "q", "r", "s", "t", "u", "v", "w", "x", "y", "z">>
LowerChar(c) ==
    IF \E i \in 1..26 : UpperChars[i] = c
    THEN LowerChars[CHOOSE i \in 1..26 : UpperChars[i] = c]
    ELSE c
Lower(cs) == [i \in 1..Len(cs) |-> LowerChar(cs[i])]

\* a variant that marks the cut with an ellipsis
SliceMarked(cs, w) ==
    IF Len(cs) > w THEN SubSeq(cs, 1, w - 3) \o <<".", ".", ".">> ELSE cs

\* text[:w]
Slice(cs, w) == IF Len(cs) > w THEN SubSeq(cs, 1, w) ELSE cs

\* text.replace(' ', '_')
ReplaceSpaces(cs) == [i \in 1..Len(cs) |-> IF cs[i] = " " THEN "_" ELSE cs[i]]

(***************************************************************************)
(* Trade white-label configuration.                                        *)
(***************************************************************************)
electrical == <<"e", "l", "e", "c", "t", "r", "i", "c", "a", "l">>
hvac == <<"h", "v", "a", "c">>
plumbing == <<"p", "l", "u", "m", "b", "i", "n", "g">>
flooring == <<"f", "l", "o", "o", "r", "i", "n", "g">>
sElectrical == <<"E", "l", "e", "c", "t", "r", "i", "c", "a", "l">>
sHVAC == <<"H", "V", "A", "C">>
sPlumbing == <<"P", "l", "u", "m", "b", "i", "n", "g">>
sFlooring == <<"F", "l", "o", "o", "r", "i", "n", "g">>

TradeKeys == {electrical, hvac, plumbing, flooring}

TRADE_CONFIGS ==
    [k \in TradeKeys |->
       CASE k = electrical ->
              [name |-> sElectrical, primary_color |-> "#0066CC",
               secondary_color |-> "#003366", accent_color |-> "#FF9800"]
         [] k = hvac ->
              [name |-> sHVAC, primary_color |-> "#FF6B00",
               secondary_color |-> "#CC5500", accent_color |-> "#FFB84D"]
         [] k = plumbing ->
              [name |-> sPlumbing, primary_color |-> "#2196F3",
               secondary_color |-> "#1565C0", accent_color |-> "#64B5F6"]
         [] k = flooring ->
              [name |-> sFlooring, primary_color |-> "#8B4513",
               secondary_color |-> "#654321", accent_color |-> "#CD853F"]]

NoConfig == [name |-> <<>>, primary_color |-> "", secondary_color |-> "",
             accent_color |-> ""]

\* trade_type.lower() raises AttributeError on a truthy value that is no str
TradeTypeRaises(v) == Truthy(v) /\ v.t # "str"

\* a variant that looks the id up as given, without .lower()
get_trade_config_as_given(v) ==
    LET trade == IF Truthy(v) THEN v.s ELSE electrical
    IN  IF trade \in DOMAIN TRADE_CONFIGS THEN TRADE_CONFIGS[trade]
        ELSE TRADE_CONFIGS[electrical]

get_trade_config(v) ==
    LET trade == IF Truthy(v) THEN Lower(v.s) ELSE electrical
    IN  IF trade \in DOMAIN TRADE_CONFIGS THEN TRADE_CONFIGS[trade]
        ELSE TRADE_CONFIGS[electrical]

(***************************************************************************)
(* The story: flowables [kind, sec, color, rows].  A Table carries its     *)
(* rows of cells, its header background in color; the other flowables      *)
(* carry no rows.                                                          *)
(***************************************************************************)
El(kind, sec, color, rows) == [kind |-> kind, sec |-> sec, color |-> color, rows |-> rows]

Spacer == El("spacer", "", "", <<>>)
Heading(sec, cfg) == El("heading", sec, cfg.primary_color, <<>>)

TruncateWidth == 25

sCompany == <<"C", "o", "m", "p", "a", "n", "y">>
sProject == <<"P", "r", "o", "j", "e", "c", "t">>
sCompanyLbl == <<"C", "o", "m", "p", "a", "n", "y", ":">>
sProjectLbl == <<"P", "r", "o", "j", "e", "c", "t", ":">>
sDateLbl == <<"D", "a", "t", "e", ":">>
sTradeLbl == <<"T", "r", "a", "d", "e", " ", "T", "y", "p", "e", ":">>
sRouteID == <<"R", "o", "u", "t", "e", " ", "I", "D">>
sFrom == <<"F", "r", "o", "m">>
sTo == <<"T", "o">>
sSize == <<"S", "i", "z", "e">>
sDistance == <<"D", "i", "s", "t", "a", "n", "c", "e", " ", "(", "f", "t", ")">>
sNEC == <<"N", "E", "C", " ", "C", "o", "m", "p", "l", "i", "a", "n", "t">>
sYesMark == <<"Y", "e", "s", " ", "+">>   \* "Yes" and the check-mark glyph
sNoMark == <<"N", "O", " ", "!">>         \* "NO" and the warning glyph
sDeviceType == <<"D", "e", "v", "i", "c", "e", " ", "T", "y", "p", "e">>
sQuantity == <<"Q", "u", "a", "n", "t", "i", "t", "y">>
sUnit == <<"U", "n", "i", "t">>
sLaborHours == <<"L", "a", "b", "o", "r", " ", "H", "o", "u", "r", "s">>
sUnknown == <<"U", "n", "k", "n", "o", "w", "n">>
sEA == <<"E", "A">>
sTOTAL == <<"T", "O", "T", "A", "L">>
sHrs == <<" ", "h", "r", "s">>
sType == <<"T", "y", "p", "e">>
sLength == <<"L", "e", "n", "g", "t", "h", " ", "(", "f", "t", ")">>
sEMT == <<"E", "M", "T">>
sYes == <<"Y", "e", "s">>
sFt == <<" ", "f", "t">>
sTotalDevices == <<"T", "o", "t", "a", "l", " ", "D", "e", "v", "i", "c", "e", "s", ":">>
sTotalConduit == <<"T", "o", "t", "a", "l", " ", "C", "o", "n", "d", "u", "i", "t", ":">>
sTotalRoutes == <<"T", "o", "t", "a", "l", " ", "R", "o", "u", "t", "e", "s", ":">>
sAnnotated == <<"_", "A", "n", "n", "o", "t", "a", "t", "e", "d", ".", "p", "d", "f">>
sToday == <<"2", "0", "2", "5", "-", "0", "1", "-", "0", "1">>   \* datetime.now()

Blank == StrV(<<>>)

\* title, spacer, company/project table, spacer
HeaderBlock(d, cfg) ==
    << El("title", "", cfg.primary_color, <<>>),
       Spacer,
       El("info", "", cfg.primary_color,
          << <<StrV(sCompanyLbl), Get(d.companyName, StrV(sCompany))>>,
             <<StrV(sProjectLbl), Get(d.projectName, StrV(sProject))>>,
             <<StrV(sDateLbl), StrV(sToday)>>,
             <<StrV(sTradeLbl), StrV(cfg.name)>> >>),
       Spacer >>

(* ---- conduit routing section ------------------------------------------ *)
route_headers ==
    <<StrV(sRouteID), StrV(sFrom), StrV(sTo), StrV(sSize), StrV(sDistance), StrV(sNEC)>>

\* route.get(key, '')[:25]: a value that is no str cannot be sliced
RouteTextRaises(v) == Get(v, Blank).t # "str"
RouteText(v) == StrV(Slice(Get(v, Blank).s, TruncateWidth))

RouteRowRaises(route) == RouteTextRaises(route.from) \/ RouteTextRaises(route.to)

RouteRow(route) ==
    << Get(route.routeId, Blank),
       RouteText(route.from),
       RouteText(route.to),
       Get(route.size_required, Blank),
       StrV(PyStr(Get(route.total_distance, Blank))),
       IF Truthy(Get(route.necCompliant, BoolV(TRUE))) THEN StrV(sYesMark) ELSE StrV(sNoMark) >>

RECURSIVE RouteLoop(_, _, _)
RouteLoop(routes, i, rows) ==
    IF i > Len(routes) THEN [exc |-> "none", rows |-> rows]
    ELSE IF RouteRowRaises(routes[i]) THEN [exc |-> "TypeError", rows |-> rows]
    ELSE RouteLoop(routes, i + 1, Append(rows, RouteRow(routes[i])))

(* ---- devices section --------------------------------------------------- *)
device_headers == <<StrV(sDeviceType), StrV(sQuantity), StrV(sUnit), StrV(sLaborHours)>>

\* data.get('deviceCounts', data.get('devices', []))
Devices(d) == Get(d.deviceCounts, Get(d.devices, List(<<>>)))

DeviceQty(device) == Get(device.quantity, Get(device.qty, IntV(0)))
DeviceLabor(device) == Get(device.total_labor_hours, Get(device.labor_hours, IntV(0)))
DeviceType(device) == Get(device.type, Get(device.item, StrV(sUnknown)))

DeviceRow(device) ==
    << DeviceType(device),
       StrV(PyStr(DeviceQty(device))),
       Get(device.unit, StrV(sEA)),
       StrV(Fmt1f(DeviceLabor(device))) >>

DeviceTotalRow(total_labor) ==
    <<StrV(sTOTAL), Blank, Blank, StrV(Fmt1f(total_labor) \o sHrs)>>

\* a variant that walks the list from its end
RECURSIVE DeviceLoopReversed(_, _, _, _)
DeviceLoopReversed(devices, i, rows, total_labor) ==
    IF i > Len(devices)
    THEN [exc |-> "none", rows |-> Append(rows, DeviceTotalRow(total_labor))]
    ELSE IF ~IsNumber(DeviceLabor(devices[Len(devices) + 1 - i]))
    THEN [exc |-> "TypeError", rows |-> rows]
    ELSE DeviceLoopReversed(devices, i + 1,
                            Append(rows, DeviceRow(devices[Len(devices) + 1 - i])),
                            Add(total_labor, DeviceLabor(devices[Len(devices) + 1 - i])))

\* total_labor += labor raises TypeError unless labor is a number
RECURSIVE DeviceLoop(_, _, _, _)
DeviceLoop(devices, i, rows, total_labor) ==
    IF i > Len(devices)
    THEN [exc |-> "none", rows |-> Append(rows, DeviceTotalRow(total_labor))]
    ELSE IF ~IsNumber(DeviceLabor(devices[i]))
    THEN [exc |-> "TypeError", rows |-> rows]
    ELSE DeviceLoop(devices, i + 1, Append(rows, DeviceRow(devices[i])),
                    Add(total_labor, DeviceLabor(devices[i])))

(* ---- conduit summary section ------------------------------------------- *)
conduit_headers == <<StrV(sType), StrV(sSize), StrV(sLength), StrV(sNEC)>>

ConduitLength(item) == Get(item.length_ft, IntV(0))

ConduitRow(item) ==
    << Get(item.type, StrV(sEMT)),
       Get(item.size, Blank),
       StrV(PyStr(ConduitLength(item))),
       Get(item.nec_compliant, StrV(sYes)) >>

ConduitTotalRow(total_conduit) ==
    <<StrV(sTOTAL), Blank, StrV(PyStr(total_conduit) \o sFt), Blank>>

RECURSIVE ConduitLoop(_, _, _, _)
ConduitLoop(conduit, i, rows, total_conduit) ==
    IF i > Len(conduit)
    THEN [exc |-> "none", rows |-> Append(rows, ConduitTotalRow(total_conduit))]
    ELSE IF ~IsNumber(ConduitLength(conduit[i]))
    THEN [exc |-> "TypeError", rows |-> rows]
    ELSE ConduitLoop(conduit, i + 1, Append(rows, ConduitRow(conduit[i])),
                     Add(total_conduit, ConduitLength(conduit[i])))

(* ---- project summary --------------------------------------------------- *)
TruthySummary(sm) ==
    sm.t = "dict" /\ \E k \in {"total_devices", "total_conduit_ft", "total_routes"} :
                        sm[k].t # "absent"

SummaryRows(sm) ==
    << <<StrV(sTotalDevices), StrV(PyStr(Get(sm.total_devices, IntV(0))))>>,
       <<StrV(sTotalConduit), StrV(PyStr(Get(sm.total_conduit_ft, IntV(0))) \o sFt)>>,
       <<StrV(sTotalRoutes), StrV(PyStr(Get(sm.total_routes, IntV(0))))>> >>

FooterBlock == <<Spacer, El("footer", "", "grey", <<>>), El("footer", "", "grey", <<>>)>>

(***************************************************************************)
(* doc.build(story): the flowables are placed on pages top to bottom.      *)
(* Heights are counted in lines: one per paragraph, spacer and table row.  *)
(* A Table that does not fit in the rest of the page is split by rows; the *)
(* Tables of the story are built without a repeatRows argument, so the     *)
(* continuation starts with the next data row.                             *)
(***************************************************************************)
repeatRows == 0

IsTable(f) == f.kind \in {"info", "table"}

Line(f, cells) == [kind |-> f.kind, sec |-> f.sec, cells |-> cells]
TableLines(f, rows) == [i \in 1..Len(rows) |-> Line(f, rows[i])]

RECURSIVE Place(_, _, _)
Place(fl, done, cur) ==
    IF fl = <<>> THEN Append(done, cur)
    ELSE LET f == Head(fl)
             avail == PageLines - Len(cur)
         IN  IF IsTable(f)
             THEN IF Len(f.rows) <= avail
                  THEN Place(Tail(fl), done, cur \o TableLines(f, f.rows))
                  ELSE IF avail <= repeatRows
                  THEN Place(fl, Append(done, cur), <<>>)
                  ELSE LET rest == [f EXCEPT !.rows =
                                      SubSeq(f.rows, 1, repeatRows) \o
                                      SubSeq(f.rows, avail + 1, Len(f.rows))]
                       IN  Place(<<rest>> \o Tail(fl),
                                 Append(done, cur \o TableLines(f, SubSeq(f.rows, 1, avail))),
                                 <<>>)
             ELSE IF avail >= 1
                  THEN Place(Tail(fl), done, Append(cur, Line(f, <<>>)))
                  ELSE Place(fl, Append(done, cur), <<>>)

Layout(st) == Place(st, <<>>, <<>>)

(***************************************************************************)
(* The /generate-pdf request.                                              *)
(***************************************************************************)
NoResponse == [status |-> 0, body |-> "none", pdf |-> <<>>, filename |-> <<>>]
JsonError(status) == [status |-> status, body |-> "json", pdf |-> <<>>, filename |-> <<>>]

DataKeys == {"companyName", "projectName", "tradeType", "conduitRoutes",
             "deviceCounts", "devices", "conduit", "summary"}

\* "not data" is false for a dict with a key and for any other non-empty JSON value
TruthyData(d) ==
    \/ d.t = "other"
    \/ d.t = "dict" /\ \E k \in DataKeys : d[k].t # "absent"

\* lines 313-321: read the body, reject an empty one, read the three names
GenerateStart ==
    /\ pc = "start"
    /\ IF ~TruthyData(data)
       THEN /\ response' = JsonError(400)
            /\ pc' = "done"
            /\ UNCHANGED <<project_name, trade_type, exc>>
       ELSE IF data.t # "dict"
       THEN /\ exc' = "AttributeError"
            /\ pc' = "except"
            /\ UNCHANGED <<project_name, trade_type, response>>
       ELSE /\ project_name' = Get(data.projectName, StrV(sProject))
            /\ trade_type' = Get(data.tradeType, StrV(electrical))
            /\ pc' = "theme"
            /\ UNCHANGED <<exc, response>>
    /\ UNCHANGED <<data, trade_config, story, pages>>

\* lines 323-326
ResolveTheme ==
    /\ pc = "theme"
    /\ IF TradeTypeRaises(trade_type)
       THEN /\ exc' = "AttributeError"
            /\ pc' = "except"
            /\ UNCHANGED trade_config
       ELSE /\ trade_config' = get_trade_config(trade_type)
            /\ pc' = "header"
            /\ UNCHANGED exc
    /\ UNCHANGED <<data, project_name, trade_type, story, pages, response>>

\* lines 74-126
BuildHeader ==
    /\ pc = "header"
    /\ story' = HeaderBlock(data, trade_config)
    /\ pc' = "routes"
    /\ UNCHANGED <<data, project_name, trade_type, trade_config, exc, pages, response>>

\* lines 128-159
RouteSection ==
    /\ pc = "routes"
    /\ LET conduit_routes == Get(data.conduitRoutes, List(<<>>))
           r == RouteLoop(conduit_routes.items, 1, <<route_headers>>)
       IN  IF ~TruthyColl(conduit_routes)
           THEN /\ pc' = "devices"
                /\ UNCHANGED <<story, exc>>
           ELSE IF r.exc # "none"
           THEN /\ story' = Append(story, Heading("routes", trade_config))
                /\ exc' = r.exc
                /\ pc' = "except"
           ELSE /\ story' = story \o
                       << Heading("routes", trade_config),
                          El("table", "routes", trade_config.primary_color, r.rows),
                          Spacer >>
                /\ pc' = "devices"
                /\ UNCHANGED exc
    /\ UNCHANGED <<data, project_name, trade_type, trade_config, pages, response>>

\* lines 161-201
DeviceSection ==
    /\ pc = "devices"
    /\ LET devices == Devices(data)
           r == DeviceLoop(devices.items, 1, <<device_headers>>, IntV(0))
       IN  IF ~TruthyColl(devices)
           THEN /\ pc' = "conduit"
                /\ UNCHANGED <<story, exc>>
           ELSE IF r.exc # "none"
           THEN /\ story' = Append(story, Heading("devices", trade_config))
                /\ exc' = r.exc
                /\ pc' = "except"
           ELSE /\ story' = story \o
                       << Heading("devices", trade_config),
                          El("table", "devices", trade_config.secondary_color, r.rows),
                          Spacer >>
                /\ pc' = "conduit"
                /\ UNCHANGED exc
    /\ UNCHANGED <<data, project_name, trade_type, trade_config, pages, response>>

\* lines 203-241
ConduitSection ==
    /\ pc = "conduit"
    /\ LET conduit == Get(data.conduit, List(<<>>))
           r == ConduitLoop(conduit.items, 1, <<conduit_headers>>, IntV(0))
       IN  IF ~TruthyColl(conduit)
           THEN /\ pc' = "summary"
                /\ UNCHANGED <<story, exc>>
           ELSE IF r.exc # "none"
           THEN /\ story' = Append(story, Heading("conduit", trade_config))
                /\ exc' = r.exc
                /\ pc' = "except"
           ELSE /\ story' = story \o
                       << Heading("conduit", trade_config),
                          El("table", "conduit", trade_config.accent_color, r.rows),
                          Spacer >>
                /\ pc' = "summary"
                /\ UNCHANGED exc
    /\ UNCHANGED <<data, project_name, trade_type, trade_config, pages, response>>

\* lines 243-263
SummarySection ==
    /\ pc = "summary"
    /\ IF TruthySummary(data.summary)
       THEN story' = story \o
                << Heading("summary", trade_config),
                   El("table", "summary", "", SummaryRows(data.summary)) >>
       ELSE UNCHANGED story
    /\ pc' = "footer"
    /\ UNCHANGED <<data, project_name, trade_type, trade_config, exc, pages, response>>

\* lines 265-275
Footer ==
    /\ pc = "footer"
    /\ story' = story \o FooterBlock
    /\ pc' = "docbuild"
    /\ UNCHANGED <<data, project_name, trade_type, trade_config, exc, pages, response>>

\* lines 277-280: the document template lays the story out, or fails
DocBuild ==
    /\ pc = "docbuild"
    /\ \E outcome \in {"ok", "ValueError", "LayoutError"} :
          IF outcome = "ok"
          THEN /\ pages' = Layout(story)
               /\ pc' = "send"
               /\ UNCHANGED exc
          ELSE /\ exc' = outcome
               /\ pc' = "except"
               /\ UNCHANGED pages
    /\ UNCHANGED <<data, project_name, trade_type, trade_config, story, response>>

\* lines 331-340: project_name.replace needs a str
SendFile ==
    /\ pc = "send"
    /\ IF project_name.t # "str"
       THEN /\ exc' = "AttributeError"
            /\ pc' = "except"
            /\ UNCHANGED response
       ELSE /\ response' = [status |-> 200, body |-> "pdf", pdf |-> pages,
                            filename |-> ReplaceSpaces(project_name.s) \o <<"_">> \o
                                         trade_config.name \o sAnnotated]
            /\ pc' = "done"
            /\ UNCHANGED exc
    /\ UNCHANGED <<data, project_name, trade_type, trade_config, story, pages>>

\* lines 342-344
HandleValueError ==
    /\ pc = "except"
    /\ exc = "ValueError"
    /\ response' = JsonError(400)
    /\ pc' = "done"
    /\ UNCHANGED <<data, project_name, trade_type, trade_config, story, exc, pages>>

\* a variant that sends what was laid out of the story so far with the error
HandleExceptionPartial ==
    /\ pc = "except"
    /\ exc # "ValueError"
    /\ response' = [JsonError(500) EXCEPT !.pdf = Layout(story)]
    /\ pc' = "done"
    /\ UNCHANGED <<data, project_name, trade_type, trade_config, story, exc, pages>>

\* lines 345-350
HandleException ==
    /\ pc = "except"
    /\ exc # "ValueError"
    /\ response' = JsonError(500)
    /\ pc' = "done"
    /\ UNCHANGED <<data, project_name, trade_type, trade_config, story, exc, pages>>

(***************************************************************************)
(* Requests.  A request body is a dict over the keys the handler reads     *)
(* (t = "dict"), no body (t = "null") or another JSON value (t = "other"). *)
(***************************************************************************)
Body(company, project, trade, routes, counts, devs, cond, summ) ==
    [t |-> "dict", companyName |-> company, projectName |-> project,
     tradeType |-> trade, conduitRoutes |-> routes, deviceCounts |-> counts,
     devices |-> devs, conduit |-> cond, summary |-> summ]

AbsentSummary == [t |-> "absent", total_devices |-> Absent,
                  total_conduit_ft |-> Absent, total_routes |-> Absent]
Summary(dv, ft, rt) == [t |-> "dict", total_devices |-> dv,
                        total_conduit_ft |-> ft, total_routes |-> rt]

sAcme == <<"A", "c", "m", "e">>
sJob == <<"J", "o", "b", " ", "1">>

EmptyBody == Body(Absent, Absent, Absent, AbsentColl, AbsentColl, AbsentColl,
                  AbsentColl, AbsentSummary)
BaseBody == [EmptyBody EXCEPT !.companyName = StrV(sAcme), !.projectName = StrV(sJob)]

\* lists of at most n items drawn from S
Lists(S, n) == UNION {[1..k -> S] : k \in 0..n}

(* ---- trade ids --------------------------------------------------------- *)
UpperChar(c) ==
    IF \E i \in 1..26 : LowerChars[i] = c
    THEN UpperChars[CHOOSE i \in 1..26 : LowerChars[i] = c]
    ELSE c

Min(a, b) == IF a < b THEN a ELSE b

\* the spellings of a key whose first MaxCasePrefix letters are in either case,
\* and the key in capitals
CaseVariants(key) ==
    {[i \in 1..Len(key) |-> IF i \in U THEN UpperChar(key[i]) ELSE key[i]] :
        U \in SUBSET (1..Min(Len(key), MaxCasePrefix))}
    \cup {[i \in 1..Len(key) |-> UpperChar(key[i])]}

UnknownIds == { <<"s", "o", "l", "a", "r">>, <<"S", "O", "L", "A", "R">>,
                <<"h", "v", "a">>, <<"h", "v", "a", "c", "s">>,
                <<" ", "h", "v", "a", "c">>, <<"H", "-", "V", "A", "C">> }

TradeInputs ==
    {Absent, Null, StrV(<<>>), IntV(0), IntV(5), BoolV(TRUE)}
    \cup {StrV(cs) : cs \in UNION {CaseVariants(k) : k \in TradeKeys}}
    \cup {StrV(cs) : cs \in UnknownIds}

(* ---- conduit routes ---------------------------------------------------- *)
\* a text of n characters, all different within any window of 26
Text(n) == [i \in 1..n |-> LowerChars[((i - 1) % 26) + 1]]

Route(id, from, to, nec) ==
    [routeId |-> StrV(<<"R", Digit(id)>>), from |-> from, to |-> to,
     size_required |-> Absent, total_distance |-> IntV(10 * id), necCompliant |-> nec]

TextInputs ==
    {Absent, Null, IntV(7)}
    \cup {StrV(Text(n)) : n \in {0, 3} \cup ((TruncateWidth - 1)..(TruncateWidth + MaxOver))}

RouteItems ==
    {Route(1, f, t, nec) : f \in TextInputs,
                           t \in {Absent, Null, StrV(Text(3)), StrV(Text(TruncateWidth + MaxOver))},
                           nec \in {Absent, BoolV(TRUE), BoolV(FALSE)}}

SmallRoutes ==
    { Route(1, StrV(Text(3)), StrV(Text(TruncateWidth + 1)), Absent),
      Route(2, StrV(Text(TruncateWidth + MaxOver)), Absent, BoolV(FALSE)),
      Route(3, Absent, StrV(Text(2)), BoolV(TRUE)) }

RouteLists == {<<r>> : r \in RouteItems} \cup Lists(SmallRoutes, MaxItems)

(* ---- devices ----------------------------------------------------------- *)
sAbc == <<"a", "b", "c">>
sOutlet == <<"O", "u", "t", "l", "e", "t">>
sSwitch == <<"S", "w", "i", "t", "c", "h">>
sPanel == <<"P", "a", "n", "e", "l">>

Device(type, item, quantity, qty, total_labor_hours, labor_hours) ==
    [type |-> type, item |-> item, quantity |-> quantity, qty |-> qty,
     unit |-> Absent, total_labor_hours |-> total_labor_hours,
     labor_hours |-> labor_hours]

DeviceItems ==
    {Device(ty, it, qn, qt, tl, lh) :
        ty \in {Absent, Null, StrV(sOutlet)},
        it \in {Absent, StrV(sSwitch)},
        qn \in {Absent, Null, IntV(3)},
        qt \in {Absent, Null, IntV(5)},
        tl \in {Absent, Null, FloatV(150), StrV(sAbc)},
        lh \in {Absent, IntV(2), FloatV(325)}}

SmallDevices ==
    { Device(StrV(sOutlet), Absent, IntV(4), Absent, Absent, FloatV(150)),
      Device(StrV(sSwitch), Absent, Absent, IntV(5), FloatV(200), Absent),
      Device(StrV(sPanel), Absent, IntV(1), Absent, Absent, FloatV(325)),
      Device(Absent, Absent, Absent, Absent, Absent, StrV(sAbc)) }

DeviceLists == {<<d>> : d \in DeviceItems} \cup Lists(SmallDevices, MaxItems)

\* the two keys of the devices collection
DeviceKeyInputs ==
    {AbsentColl, NullColl} \cup {List(l) : l \in Lists(SmallDevices, 1)}

(* ---- conduit summary --------------------------------------------------- *)
sPVC == <<"P", "V", "C">>
sNo == <<"N", "o">>

Conduit(type, length_ft, nec) ==
    [type |-> type, size |-> Absent, length_ft |-> length_ft, nec_compliant |-> nec]

SmallConduit ==
    { Conduit(StrV(sPVC), IntV(10), Absent),
      Conduit(Absent, FloatV(1225), StrV(sNo)),
      Conduit(StrV(sEMT), Absent, Absent),
      Conduit(StrV(sPVC), StrV(sAbc), Absent),
      Conduit(Absent, Null, Absent) }

ConduitLists == Lists(SmallConduit, MaxItems)

(* ---- summary ----------------------------------------------------------- *)
SummaryInputs ==
    { AbsentSummary, [AbsentSummary EXCEPT !.t = "null"],
      Summary(Absent, Absent, Absent),
      Summary(IntV(12), Absent, Absent),
      Summary(IntV(12), FloatV(1225), IntV(3)) }

(* ---- the requests of the model ----------------------------------------- *)
PresenceInputs(l) == {AbsentColl, NullColl, List(<<>>), List(l)}

Requests ==
    \* no body, an empty object, a JSON value that is no object
    { [EmptyBody EXCEPT !.t = "null"], EmptyBody, [EmptyBody EXCEPT !.t = "other"] }
    \* the names
    \cup { [EmptyBody EXCEPT !.companyName = c, !.projectName = p, !.tradeType = StrV(hvac)] :
              c \in {Absent, StrV(sAcme)}, p \in {Absent, Null, StrV(sJob)} }
    \* the trade id
    \cup { [BaseBody EXCEPT !.tradeType = v] : v \in TradeInputs }
    \* one section at a time
    \cup { [BaseBody EXCEPT !.conduitRoutes = List(l)] : l \in RouteLists }
    \cup { [BaseBody EXCEPT !.deviceCounts = List(l)] : l \in DeviceLists }
    \cup { [BaseBody EXCEPT !.deviceCounts = c, !.devices = d] :
              c \in DeviceKeyInputs, d \in DeviceKeyInputs \cup {List(l) : l \in Lists(SmallDevices, 2)} }
    \cup { [BaseBody EXCEPT !.conduit = List(l)] : l \in ConduitLists }
    \cup { [BaseBody EXCEPT !.summary = sm] : sm \in SummaryInputs }
    \* which sections are present
    \cup { [BaseBody EXCEPT !.conduitRoutes = r, !.deviceCounts = c, !.conduit = k, !.summary = sm] :
              r \in PresenceInputs(<<Route(1, Absent, Absent, Absent)>>),
              c \in PresenceInputs(<<Device(StrV(sOutlet), Absent, IntV(4), Absent, Absent, FloatV(150))>>),
              k \in PresenceInputs(<<Conduit(StrV(sPVC), IntV(10), Absent)>>),
              sm \in {AbsentSummary, Summary(Absent, Absent, Absent), Summary(IntV(12), Absent, Absent)} }

Init ==
    /\ data \in Requests
    /\ pc = "start"
    /\ project_name = Absent
    /\ trade_type = Absent
    /\ trade_config = NoConfig
    /\ story = <<>>
    /\ exc = "none"
    /\ pages = <<>>
    /\ response = NoResponse

Next ==
    \/ GenerateStart
    \/ ResolveTheme
    \/ BuildHeader
    \/ RouteSection
    \/ DeviceSection
    \/ ConduitSection
    \/ SummarySection
    \/ Footer
    \/ DocBuild
    \/ SendFile
    \/ HandleValueError
    \/ HandleException

Spec == Init /\ [][Next]_vars

(***************************************************************************)
(* Properties.                                                             *)
(***************************************************************************)
Sections == {"routes", "devices", "conduit", "summary"}

HasHeading(sec) == \E i \in 1..Len(story) : story[i].kind = "heading" /\ story[i].sec = sec
HasTable(sec) == \E i \in 1..Len(story) : story[i].kind = "table" /\ story[i].sec = sec
TableRows(sec) ==
    story[CHOOSE i \in 1..Len(story) : story[i].kind = "table" /\ story[i].sec = sec].rows

\* the footer is the last thing build_pdf_from_data appends
StoryComplete == Len(story) > 0 /\ story[Len(story)].kind = "footer"

\* the section whose loop raised: its heading is the last flowable appended
RaisedIn(sec) ==
    /\ exc = "TypeError"
    /\ Len(story) > 0
    /\ story[Len(story)].kind = "heading"
    /\ story[Len(story)].sec = sec

NonEmptyList(c) == c.t = "list" /\ c.items # <<>>

NonEmpty(sec) ==
    CASE sec = "routes" -> NonEmptyList(data.conduitRoutes)
      [] sec = "devices" -> NonEmptyList(Devices(data))
      [] sec = "conduit" -> NonEmptyList(data.conduit)
      [] sec = "summary" -> TruthySummary(data.summary)

(* ---- C1 ---------------------------------------------------------------- *)
EqIgnoreCase(cs, key) ==
    /\ Len(cs) = Len(key)
    /\ \A i \in 1..Len(key) : cs[i] = key[i] \/ cs[i] = UpperChar(key[i])

ThemeResolved == pc \notin {"start", "theme"} /\ trade_type.t \in {"str", "null"}

\* C1: for a tradeType that is a string or None, the resolved theme is the
\* table entry whose key equals the value up to letter case, and the
\* electrical entry when there is none (None, "", "solar"); the lookup never
\* fails and never yields anything outside the four-entry table.
C1_ThemeLookup ==
    (data.t = "dict" /\ TruthyData(data) /\ Get(data.tradeType, StrV(electrical)).t \in {"str", "null"})
    => /\ ~(pc = "except" /\ story = <<>> /\ trade_config = NoConfig)
       /\ ThemeResolved =>
            /\ \E k \in TradeKeys : trade_config = TRADE_CONFIGS[k]
            /\ \A k \in TradeKeys :
                  (trade_type.t = "str" /\ EqIgnoreCase(trade_type.s, k))
                  => trade_config = TRADE_CONFIGS[k]
            /\ (trade_type.t = "null" \/ \A k \in TradeKeys : ~EqIgnoreCase(trade_type.s, k))
               => trade_config = TRADE_CONFIGS[electrical]

C1_Witness ==
    /\ pc = "header"
    /\ trade_type = StrV(<<"H", "V", "A", "C">>)
    /\ trade_config.name = sHVAC
    /\ trade_config.primary_color = "#FF6B00"

(* ---- C2 ---------------------------------------------------------------- *)
Kinds(st) == [i \in 1..Len(st) |-> st[i].kind]

\* C2: a section's heading and table are in the story if and only if its
\* collection is non-empty; with all four collections empty or absent the
\* story is the title, the metadata table and the footer (and the spacers
\* between them), and no table ever has only a header row.
C2_SectionsIffNonEmpty ==
    /\ \A sec \in Sections :
          /\ (HasHeading(sec) \/ HasTable(sec)) => NonEmpty(sec)
          /\ HasTable(sec) => HasHeading(sec) /\ Len(TableRows(sec)) >= 2
          /\ StoryComplete => (NonEmpty(sec) <=> (HasHeading(sec) /\ HasTable(sec)))
    /\ (StoryComplete /\ \A sec \in Sections : ~NonEmpty(sec))
       => Kinds(story) = <<"title", "spacer", "info", "spacer", "spacer", "footer", "footer">>

C2_Witness ==
    /\ pc = "docbuild"
    /\ data.conduitRoutes = List(<<>>)
    /\ data.deviceCounts = NullColl
    /\ data.conduit = List(<<>>)
    /\ data.summary = Summary(Absent, Absent, Absent)
    /\ Len(story) = 7

(* ---- C3 ---------------------------------------------------------------- *)
\* the first alias that is present with a non-null value, else the default
FirstNonNull(a, b, default) ==
    IF a.t \notin {"absent", "null"} THEN a
    ELSE IF b.t \notin {"absent", "null"} THEN b
    ELSE default

\* C3: every device row shows, in the type, quantity and labor-hours
\* columns, the first alias present with a non-null value, else the default
\* (Unknown, 0, 0); no device list fails for a null or missing alias.
C3_AliasFirstNonNull ==
    /\ HasTable("devices") =>
          \A i \in 1..Len(Devices(data).items) :
             LET d == Devices(data).items[i]
                 row == TableRows("devices")[i + 1]
             IN  /\ row[1] = FirstNonNull(d.type, d.item, StrV(sUnknown))
                 /\ row[2] = StrV(PyStr(FirstNonNull(d.quantity, d.qty, IntV(0))))
                 /\ IsNumber(FirstNonNull(d.total_labor_hours, d.labor_hours, IntV(0)))
                    => row[4] = StrV(Fmt1f(FirstNonNull(d.total_labor_hours, d.labor_hours, IntV(0))))
    /\ RaisedIn("devices") =>
          \E i \in 1..Len(Devices(data).items) :
             LET d == Devices(data).items[i]
             IN  ~IsNumber(FirstNonNull(d.total_labor_hours, d.labor_hours, IntV(0)))

(* ---- C4 ---------------------------------------------------------------- *)
\* C4: a labor-hours or length_ft value that is no number never fails the
\* render: the section's table is built, with one row per item.
C4_NonNumericAbsorbed ==
    /\ ~RaisedIn("devices")
    /\ ~RaisedIn("conduit")
    /\ HasTable("devices") => Len(TableRows("devices")) = Len(Devices(data).items) + 2
    /\ HasTable("conduit") => Len(TableRows("conduit")) = Len(data.conduit.items) + 2

(* ---- C5 ---------------------------------------------------------------- *)
DigitVal(c) == CHOOSE d \in 0..9 : Digits[d + 1] = c

RECURSIVE NumVal(_)
NumVal(cs) == IF cs = <<>> THEN 0
              ELSE 10 * NumVal(SubSeq(cs, 1, Len(cs) - 1)) + DigitVal(cs[Len(cs)])

\* the number a decimal text with one fraction digit denotes, in hundredths
ParseHundredths(cs) ==
    LET p == CHOOSE i \in 1..Len(cs) : cs[i] = "."
    IN  100 * NumVal(SubSeq(cs, 1, p - 1)) + 10 * NumVal(SubSeq(cs, p + 1, Len(cs)))

RECURSIVE SumLabor(_)
SumLabor(devs) == IF devs = <<>> THEN 0
                  ELSE Hundredths(DeviceLabor(Head(devs))) + SumLabor(Tail(devs))

TotalRowShape(rows, n) ==
    /\ Len(rows) = n + 2
    /\ rows[n + 2][1] = StrV(sTOTAL)
    /\ rows[n + 2][2] = Blank
    /\ rows[n + 2][3] = Blank
    /\ \A i \in 2..(n + 1) : rows[i] # rows[n + 2]
    /\ Len(rows[n + 2][4].s) >= 7
    /\ SubSeq(rows[n + 2][4].s, Len(rows[n + 2][4].s) - 3, Len(rows[n + 2][4].s)) = sHrs

TotalText(rows) == SubSeq(rows[Len(rows)][4].s, 1, Len(rows[Len(rows)][4].s) - 4)

C6_RowOrder ==
    /\ HasTable("routes") =>
          LET its == data.conduitRoutes.items
              rows == TableRows("routes")
          IN  /\ Len(rows) = Len(its) + 1
              /\ rows[1] = route_headers
              /\ \A i \in 1..Len(its) : rows[i + 1] = RouteRow(its[i])
    /\ HasTable("devices") =>
          LET its == Devices(data).items
              rows == TableRows("devices")
          IN  /\ Len(rows) = Len(its) + 2
              /\ rows[1] = device_headers
              /\ \A i \in 1..Len(its) : rows[i + 1] = DeviceRow(its[i])
    /\ HasTable("conduit") =>
          LET its == data.conduit.items
              rows == TableRows("conduit")
          IN  /\ Len(rows) = Len(its) + 2
              /\ rows[1] = conduit_headers
              /\ \A i \in 1..Len(its) : rows[i + 1] = ConduitRow(its[i])

C6_Witness ==
    /\ HasTable("devices")
    /\ Len(Devices(data).items) = 3
    /\ TableRows("devices")[2][1] = StrV(sPanel)
    /\ TableRows("devices")[3][1] = StrV(sOutlet)
    /\ TableRows("devices")[4][1] = StrV(sSwitch)

(* ---- C7 ---------------------------------------------------------------- *)
\* what the From/To cell of a value must show
TruncatedAs(cell, v) ==
    CASE v.t = "absent" -> cell = Blank
      [] v.t = "str" /\ Len(v.s) <= TruncateWidth -> cell = v
      [] v.t = "str" /\ Len(v.s) > TruncateWidth ->
            /\ cell.t = "str"
            /\ Len(cell.s) = TruncateWidth
            /\ \A j \in 1..TruncateWidth : cell.s[j] = v.s[j]
      [] OTHER -> TRUE

\* C7: the From and To cells of a route are the first 25 characters of the
\* value when it is longer, with nothing appended, the value itself when it
\* is not, and the empty string for a missing key, which does not raise.
C7_Truncation ==
    /\ HasTable("routes") =>
          \A i \in 1..Len(data.conduitRoutes.items) :
             /\ TruncatedAs(TableRows("routes")[i + 1][2], data.conduitRoutes.items[i].from)
             /\ TruncatedAs(TableRows("routes")[i + 1][3], data.conduitRoutes.items[i].to)
    /\ RaisedIn("routes") =>
          \E i \in 1..Len(data.conduitRoutes.items) :
             \/ data.conduitRoutes.items[i].from.t \notin {"absent", "str"}
             \/ data.conduitRoutes.items[i].to.t \notin {"absent", "str"}

C7_Witness ==
    /\ HasTable("routes")
    /\ Len(data.conduitRoutes.items) = 1
    /\ Len(data.conduitRoutes.items[1].from.s) = TruncateWidth + MaxOver
    /\ data.conduitRoutes.items[1].to = Absent
    /\ Len(TableRows("routes")[2][2].s) = TruncateWidth
    /\ TableRows("routes")[2][3] = Blank

(* ---- C8 ---------------------------------------------------------------- *)
SecLines(page, sec) == SelectSeq(page, LAMBDA l : l.kind = "table" /\ l.sec = sec)

RECURSIVE DrawnRows(_, _)
DrawnRows(pgs, sec) == IF pgs = <<>> THEN 0
                       ELSE Len(SecLines(Head(pgs), sec)) + DrawnRows(Tail(pgs), sec)

Continues(sec, p) ==
    /\ p \in 2..Len(pages)
    /\ SecLines(pages[p - 1], sec) # <<>>
    /\ SecLines(pages[p], sec) # <<>>

\* C8: a section table that runs over the end of a page continues on the
\* next page under a repeated header row, so the rows drawn are the table's
\* rows plus one header per continuation.
C8_HeaderRepeated ==
    \A sec \in {"routes", "devices", "conduit"} :
       \A p \in 1..Len(pages) :
          Continues(sec, p) =>
             /\ SecLines(pages[p], sec)[1].cells = TableRows(sec)[1]
             /\ DrawnRows(pages, sec) =
                   Len(TableRows(sec)) + Cardinality({q \in 1..Len(pages) : Continues(sec, q)})

(* ---- C9 ---------------------------------------------------------------- *)
AllLines(pgs) == IF pgs = <<>> THEN <<>> ELSE pgs[Len(pgs)]

C10_LegacyDevicesKey ==
    (/\ StoryComplete
     /\ data.deviceCounts.t \in {"absent", "null"}
     /\ NonEmptyList(data.devices)
     /\ \A i \in 1..Len(data.devices.items) : IsNumber(DeviceLabor(data.devices.items[i])))
    => /\ HasTable("devices")
       /\ Len(TableRows("devices")) = Len(data.devices.items) + 2
       /\ \A i \in 1..Len(data.devices.items) :
             TableRows("devices")[i + 1] = DeviceRow(data.devices.items[i])

====
